---- MODULE Spec2Model ----
(***************************************************************************)
(* A model of the aspen ECS core: the World (entity registry, component    *)
(* store, fixed and dependent system lists, fixed-timestep accumulator)    *)
(* of src/src/lib.rs, the Component table of src/src/component.rs and the  *)
(* Query of src/src/system.rs.                                             *)
(*                                                                         *)
(* Times are u64/u32 nanosecond counts as in std::time::Duration; the      *)
(* accumulator and the period are IEEE-754 binary32 values, computed with  *)
(* round-to-nearest-even as the hardware computes them.                    *)
(***************************************************************************)
EXTENDS Integers, Sequences, FiniteSets, TLC

(***************************************************************************)
(* binary32 arithmetic.  A finite non-negative f32 is <<m, e>>, standing   *)
(* for m * 2^e, with m = 0 (zero, e = 0) or 2^23 <= m < 2^24.  The World   *)
(* only ever holds non-negative finite values far from the subnormal range.*)
(***************************************************************************)
RECURSIVE Pow2(_)
Pow2(k) == IF k = 0 THEN 1 ELSE 2 * Pow2(k - 1)

RECURSIVE BitLen(_)
BitLen(n) == IF n = 0 THEN 0 ELSE 1 + BitLen(n \div 2)

MantBits == 24

F32Zero == <<0, 0>>

\* Round the value (q + f) * 2^e, where 0 <= f < 1 and sticky says f > 0, to
\* the nearest f32, ties to even.  When sticky holds q has at least 25 bits.
F32Round(q, e, sticky) ==
    IF q = 0 THEN F32Zero
    ELSE LET n == BitLen(q) IN
         IF n <= MantBits
         THEN <<q * Pow2(MantBits - n), e - (MantBits - n)>>
         ELSE LET s    == n - MantBits
                  m    == q \div Pow2(s)
                  rem  == q % Pow2(s)
                  half == Pow2(s - 1)
                  up   == \/ rem > half
                          \/ rem = half /\ (sticky \/ m % 2 = 1)
                  m2   == IF up THEN m + 1 ELSE m
              IN IF m2 = Pow2(MantBits)
                 THEN <<Pow2(MantBits - 1), e + s + 1>>
                 ELSE <<m2, e + s>>

\* `n as f32` for an unsigned integer n.
F32FromInt(n) == F32Round(n, 0, FALSE)

\* a >= b
F32Ge(a, b) ==
    IF b[1] = 0 THEN TRUE
    ELSE IF a[1] = 0 THEN FALSE
    ELSE IF a[2] # b[2] THEN a[2] > b[2]
    ELSE a[1] >= b[1]

\* Bits of headroom an aligned mantissa gets before the operation.
Guard == 30 - MantBits

\* a + b
F32Add(a, b) ==
    IF a[1] = 0 THEN b
    ELSE IF b[1] = 0 THEN a
    ELSE LET hi == IF a[2] >= b[2] THEN a ELSE b
             lo == IF a[2] >= b[2] THEN b ELSE a
             d  == hi[2] - lo[2]
         IN IF d <= Guard
            THEN F32Round(hi[1] * Pow2(d) + lo[1], lo[2], FALSE)
            ELSE IF d - Guard > MantBits
            THEN F32Round(hi[1] * Pow2(Guard), hi[2] - Guard, TRUE)
            ELSE LET sh == Pow2(d - Guard)
                 IN F32Round(hi[1] * Pow2(Guard) + (lo[1] \div sh),
                             hi[2] - Guard, lo[1] % sh # 0)

\* a - b, for a >= b
F32Sub(a, b) ==
    IF b[1] = 0 THEN a
    ELSE LET d == a[2] - b[2]
         IN IF d <= Guard
            THEN F32Round(a[1] * Pow2(d) - b[1], b[2], FALSE)
            ELSE IF d - Guard > MantBits
            THEN F32Round(a[1] * Pow2(Guard) - 1, a[2] - Guard, TRUE)
            ELSE LET sh == Pow2(d - Guard)
                     st == b[1] % sh # 0
                 IN F32Round(a[1] * Pow2(Guard) - (b[1] \div sh)
                                 - (IF st THEN 1 ELSE 0),
                             a[2] - Guard, st)

\* Long division: the quotient bits of r / mb, k more of them after q.
RECURSIVE DivBits(_, _, _, _)
DivBits(q, r, mb, k) ==
    IF k = 0 THEN <<q, r>>
    ELSE IF 2 * r >= mb
         THEN DivBits(2 * q + 1, 2 * r - mb, mb, k - 1)
         ELSE DivBits(2 * q, 2 * r, mb, k - 1)

\* a / b, for b > 0
F32Div(a, b) ==
    IF a[1] = 0 THEN F32Zero
    ELSE LET k  == MantBits + 2
             qr == DivBits(a[1] \div b[1], a[1] % b[1], b[1], k)
         IN F32Round(qr[1], a[2] - b[2] - k, qr[2] # 0)

(***************************************************************************)
(* Inputs and bounds.                                                      *)
(***************************************************************************)
NanosPerSec == 1000000000

\* Component types (TypeId values) and component values the callers use.
Types == {"A", "B"}
Values == {0}

\* WorldBuilder frequencies (u16, Hz): 4 has a period that is a power of two,
\* 10 one that binary32 cannot hold exactly.
Freqs == {4, 10}

\* Time that passes between two calls of tick, and between the two clock
\* readings inside one tick (nanoseconds).
Deltas == {50000000, 1000000000, 1250000000}
Skews == {0, 1}
\* the values a write through a MutexGuard leaves in a cell
CellValues == {0, 1}

MaxClock == 2000000000
MaxTicks == 2
MaxEntities == 2
MaxCells == 2
MaxSystems == 2
MaxCalls == 2
MaxQuerySystems == 1
MaxQueryTicks == 1
MaxPoisonSystems == 2
MaxPoisonCalls == 1
MaxFixedSystems == 1
MaxFixedCells == 1
MaxStallSystems == 1
MaxContendCalls == 1
MaxPasses == 32
MaxLog == 128
MaxMotion == 3
MaxAppCells == 1
MaxResumes == 2
MaxAppTicks == 1

(***************************************************************************)
(* u32 values are kept as two 16-bit halves <<hi, lo>>.                    *)
(***************************************************************************)
Half == 65536

U32Zero == <<0, 0>>
U32Max == <<Half - 1, Half - 1>>

U32Lt(a, b) == a[1] < b[1] \/ (a[1] = b[1] /\ a[2] < b[2])

\* a + 1 without the overflow check: wraps to 0 after u32::MAX.
U32NoInc(a) == a

U32WrappingInc(a) ==
    IF a[2] + 1 < Half THEN <<a[1], a[2] + 1>>
    ELSE IF a[1] + 1 < Half THEN <<a[1] + 1, 0>>
    ELSE U32Zero

VARIABLES
    frequency,          \* WorldBuilder.frequency
    period,             \* World.period (f32)
    previous_time,      \* World.previous_time (Instant, ns since build)
    accumulator,        \* World.accumulator (f32)
    entities,           \* World.entities, the entries pushed in this run
    entities_base,      \* number of earlier entries of World.entities, which
                        \* hold Entity(0) .. Entity(entities_base - 1)
    current_id,         \* World.current_id (u32)
    components,         \* World.components: Vec<Component<Arc<Mutex<dyn Any>>>>
    fixed_systems,      \* World.fixed_systems
    dependent_systems,  \* World.dependent_systems
    cells,              \* the Arc<Mutex<T>> allocations
    clock,              \* the monotonic clock behind Instant::now()
    panicked,           \* the thread has panicked
    pc,                 \* where tick() is: "idle" outside of it
    idx,                \* position of the for_each over the system list
    running,            \* the system at idx is executing
    log,                \* the executions of the current tick, in order
    passes,             \* fixed passes of the current tick
    tick_delta,         \* delta_time of the current tick (ns)
    ticks,              \* calls of tick so far
    total_delta,        \* sum of the delta_time of all ticks (ns)
    total_passes,       \* fixed passes of all ticks
    registered,         \* systems registered so far
    returned,           \* what the last new_entity since the last tick returned
    added,              \* the (entity, type) pairs given to share_component
    lastOp,             \* the last store operation since the last tick, and
                        \* the cell it replaced
    given,              \* the cell the caller last handed over for a pair
    query,              \* Query.matches of the executing system
    call,               \* the Query operation in progress
    calls,              \* Query operations of the executing system so far
    locks,              \* the locked Mutexes: <<cell, holder>>
    poisoned,           \* the Mutexes whose poison flag is set
    result,             \* what the last get_entities / get / get_all returned
    presented,          \* the maps `all` handed to f, the latest first, and
                        \* whether a cell was written since
    invoked,            \* the entities `each` has invoked f for
    wrote,              \* the last write of the executing system's f
    input,              \* App.input: the InputManager behind the App's Arc
    received,           \* the sum of the motion values of each axis since the
                        \* last reset of the analog input
    vertex_buffers,     \* WgpuRenderer.vertex_buffers: MeshId -> ModelInfo
    instances,          \* WgpuRenderer.instances: MeshId -> InstanceInfo
    fatal               \* the message of the panic of a handler of the App or
                        \* of the renderer

vars == <<frequency, period, previous_time, accumulator, entities,
          entities_base, current_id, components, fixed_systems,
          dependent_systems, cells, clock, panicked, pc, idx,
          running, log, passes, tick_delta, ticks, total_delta, total_passes,
          registered, returned, added, lastOp, given, query, call, calls,
          locks, poisoned, result, presented, invoked, wrote, input,
          received, vertex_buffers, instances, fatal>>

schedVars == <<previous_time, accumulator, clock, pc, idx, running, log,
               passes, tick_delta, ticks, total_delta, total_passes>>
storeVars == <<components, cells, added, lastOp, given>>
entityVars == <<entities, entities_base, current_id, returned, panicked>>
systemVars == <<fixed_systems, dependent_systems, registered>>
buildVars == <<frequency, period>>
\* the App's input, and the renderer's tables
appVars == <<input, received, vertex_buffers, instances, fatal>>
\* what neither a Query operation nor an external holder of a cell changes
worldVars == <<schedVars, systemVars, buildVars, appVars, components, added, lastOp,
               given, entities, entities_base, current_id, returned>>
queryVars == <<query, call, calls, locks, poisoned, result, presented, invoked,
               wrote>>

NoOp == [op |-> "none", entity |-> U32Zero, type |-> "A", cell |-> 0,
         earlier |-> 0]

\* Option::None where a cell is expected
None == 0

\* fs: the invocations of f by `all` so far
NoCall == [op |-> "none", type |-> "A", todo |-> << >>, held |-> {},
           phase |-> "none", fs |-> 0]

NoResult == [op |-> "none", type |-> "A", entity |-> U32Zero, value |-> None]

NoWrite == [entity |-> U32Zero, type |-> "none", value |-> 0, call |-> 0]

(***************************************************************************)
(* InputManager::new, App::new, WgpuRenderer::new                          *)
(***************************************************************************)
\* keys: HashSet::new(), analog_input: (0.0, 0.0)
InputManager_new == [keys |-> {}, analog_input |-> <<0, 0>>]

\* the App owns a fresh InputManager; the renderer's tables start empty
App_new ==
    /\ input = InputManager_new
    /\ received = <<0, 0>>
    /\ vertex_buffers = << >>
    /\ instances = << >>
    /\ fatal = "none"

(***************************************************************************)
(* WorldBuilder::build                                                     *)
(***************************************************************************)
\* 1.0 / f32::from(frequency)
Period(f) == F32Div(F32FromInt(1), F32FromInt(f))

Build(f, base) ==
    /\ frequency = f
    /\ period = Period(f)
    /\ previous_time = 0
    /\ accumulator = F32Zero
    /\ entities = << >>
    /\ entities_base = base
    /\ current_id = base
    /\ components = << >>
    /\ fixed_systems = << >>
    /\ dependent_systems = << >>
    /\ cells = << >>
    /\ clock = 0
    /\ panicked = FALSE
    /\ pc = "idle"
    /\ idx = 1
    /\ running = FALSE
    /\ log = << >>
    /\ passes = 0
    /\ tick_delta = 0
    /\ ticks = 0
    /\ total_delta = 0
    /\ total_passes = 0
    /\ registered = 0
    /\ returned = << >>
    /\ added = {}
    /\ lastOp = NoOp
    /\ given = << >>
    /\ query = << >>
    /\ call = NoCall
    /\ calls = 0
    /\ locks = {}
    /\ poisoned = {}
    /\ result = NoResult
    /\ presented = << >>
    /\ invoked = << >>
    /\ wrote = NoWrite
    /\ App_new

Init == \E f \in Freqs : Build(f, U32Zero)

(***************************************************************************)
(* World::new_entity                                                       *)
(***************************************************************************)
new_entity ==
    /\ pc = "idle" /\ ~panicked
    /\ Len(entities) < MaxEntities
    /\ entities' = Append(entities, current_id)
    /\ \/ \* `self.current_id += 1` in a build that checks overflow (debug):
          \* panics with "attempt to add with overflow"
          /\ current_id = U32Max
          /\ panicked' = TRUE
          /\ UNCHANGED <<current_id, returned>>
       \/ \* in bounds, or in a build that does not check (release)
          /\ current_id' = U32WrappingInc(current_id)
          /\ returned' = <<current_id>>
          /\ UNCHANGED panicked
    /\ UNCHANGED <<entities_base, schedVars, storeVars, systemVars, buildVars, appVars,
                   queryVars>>

(***************************************************************************)
(* Component and World::add_component / World::share_component             *)
(***************************************************************************)
\* Component::new
Component_new_one_key(type_id) == [type_id |-> "A", data |-> << >>]

Component_new(type_id) == [type_id |-> type_id, data |-> << >>]

\* Component::add_entity: HashMap::insert
add_entity_keep(table, entity, component) ==
    [table EXCEPT !.data =
        [e \in DOMAIN table.data \cup {entity} |->
            IF e \in DOMAIN table.data THEN table.data[e] ELSE component]]

add_entity(table, entity, component) ==
    [table EXCEPT !.data =
        [e \in DOMAIN table.data \cup {entity} |->
            IF e = entity THEN component ELSE table.data[e]]]

\* Component::remove_entity: HashMap::remove
remove_entity_clear(table, entity) == [table EXCEPT !.data = << >>]

remove_entity(table, entity) ==
    [table EXCEPT !.data =
        [e \in DOMAIN table.data \ {entity} |-> table.data[e]]]

\* The tables the `for e in self.components.iter_mut()` loop matches.
Matching_last(store, T) == {i \in {Len(store)} \ {0} : store[i].type_id = T}

Matching(store, T) == {i \in 1..Len(store) : store[i].type_id = T}

\* World::share_component on the store
share_always_push(store, entity, T, c) ==
    Append(store, add_entity(Component_new(T), entity, c))

share_to_front(store, entity, T, c) ==
    IF Matching(store, T) # {}
    THEN LET i == CHOOSE j \in Matching(store, T) :
                      \A k \in Matching(store, T) : j <= k
         IN [store EXCEPT ![i] = add_entity(store[i], entity, c)]
    ELSE <<add_entity(Component_new(T), entity, c)>> \o store

share(store, entity, T, c) ==
    IF Matching(store, T) # {}
    THEN LET i == CHOOSE j \in Matching(store, T) :
                      \A k \in Matching(store, T) : j <= k
         IN [store EXCEPT ![i] = add_entity(store[i], entity, c)]
    ELSE Append(store, add_entity(Component_new(T), entity, c))

\* The cell an entity has in the first table of a type (0: none).
CellOf(store, entity, T) ==
    IF Matching(store, T) = {} THEN 0
    ELSE LET i == CHOOSE j \in Matching(store, T) :
                      \A k \in Matching(store, T) : j <= k
         IN IF entity \in DOMAIN store[i].data THEN store[i].data[entity]
            ELSE 0

Issued == {entities[i] : i \in 1..Len(entities)}

Store(op, entity, T, c) ==
    /\ components' = share(components, entity, T, c)
    /\ added' = added \cup {<<entity, T>>}
    /\ lastOp' = [op |-> op, entity |-> entity, type |-> T, cell |-> c,
                  earlier |-> CellOf(components, entity, T)]
    /\ given' = [p \in DOMAIN given \cup {<<entity, T>>} |->
                    IF p = <<entity, T>> THEN c ELSE given[p]]

\* Component::remove_entity is called, within the crate, on one table of the
\* store for an entity the World has issued.
Component_remove_entity ==
    /\ pc = "idle" /\ ~panicked
    /\ \E i \in 1..Len(components), entity \in Issued :
        /\ components' =
                [components EXCEPT ![i] = remove_entity(components[i], entity)]
        /\ lastOp' = [op |-> "remove_entity", entity |-> entity,
                      type |-> components[i].type_id, cell |-> None,
                      earlier |-> IF entity \in DOMAIN components[i].data
                                  THEN components[i].data[entity] ELSE None]
    /\ UNCHANGED <<cells, added, given, schedVars, entityVars, systemVars,
                   buildVars, appVars, queryVars>>

\* add_component wraps the value in a new Arc<Mutex<T>> of its own.
add_component_reusing ==
    /\ pc = "idle" /\ ~panicked
    /\ \E entity \in Issued, T \in Types :
        \/ /\ Len(cells) < MaxCells
           /\ \E v \in Values :
                cells' = Append(cells,
                                [type |-> T, value |-> v, external |-> FALSE])
           /\ Store("add_component", entity, T, Len(cells) + 1)
        \/ \E c \in 1..Len(cells) :
            /\ cells[c].type = T
            /\ cells' = cells
            /\ Store("add_component", entity, T, c)
    /\ UNCHANGED <<schedVars, entityVars, systemVars, buildVars, appVars, queryVars>>

add_component ==
    /\ pc = "idle" /\ ~panicked
    /\ Len(cells) < MaxCells
    /\ \E entity \in Issued, T \in Types, v \in Values :
        /\ cells' = Append(cells, [type |-> T, value |-> v, external |-> FALSE])
        /\ Store("add_component", entity, T, Len(cells) + 1)
    /\ UNCHANGED <<schedVars, entityVars, systemVars, buildVars, appVars, queryVars>>

\* share_component takes an Arc the caller made: a new one, or a clone of
\* one the caller already holds.
share_component ==
    /\ pc = "idle" /\ ~panicked
    /\ \E entity \in Issued, T \in Types :
        \/ /\ Len(cells) < MaxCells
           /\ \E v \in Values :
                cells' = Append(cells,
                                [type |-> T, value |-> v, external |-> TRUE])
           /\ Store("share_component", entity, T, Len(cells) + 1)
        \/ \E c \in 1..Len(cells) :
            /\ cells[c].external /\ cells[c].type = T
            /\ cells' = cells
            /\ Store("share_component", entity, T, c)
    /\ UNCHANGED <<schedVars, entityVars, systemVars, buildVars, appVars, queryVars>>

(***************************************************************************)
(* World::add_fixed_system / World::add_dependent_system                   *)
(***************************************************************************)
\* A system: the order of its registration (its name in the log) and the
\* TypeIds of SystemInterface::components.
Filters == {{"A", "B"}}
\* ... and of the systems that use their Query
QueryFilters == {{"A"}, {"A", "B"}}

\* Vec::push
push_front(list, system) == <<system>> \o list

push(list, system) == Append(list, system)

add_fixed_system ==
    /\ pc = "idle" /\ ~panicked
    /\ Len(fixed_systems) < MaxSystems
    /\ \E filter \in Filters :
        fixed_systems' =
            push(fixed_systems, [name |-> registered + 1, components |-> filter,
                                 executable |-> "user"])
    /\ registered' = registered + 1
    /\ UNCHANGED <<dependent_systems, schedVars, storeVars, entityVars,
                   buildVars, appVars, queryVars>>

\* add_dependent_system with a system whose filter is one of `filters`
RegisterDependent(filters) ==
    /\ pc = "idle" /\ ~panicked
    /\ Len(dependent_systems) < MaxSystems
    /\ \E filter \in filters :
        dependent_systems' =
            push(dependent_systems,
                 [name |-> registered + 1, components |-> filter,
                  executable |-> "user"])
    /\ registered' = registered + 1
    /\ UNCHANGED <<fixed_systems, schedVars, storeVars, entityVars, buildVars, appVars,
                   queryVars>>

add_dependent_system == RegisterDependent(Filters)

(***************************************************************************)
(* The closures of the systems the App registers (os.rs)                   *)
(***************************************************************************)
\* input.lock().unwrap().analog_input = (0.0, 0.0): all that is left of the
\* closure of the App's fixed system; the closure of its dependent system
\* and every statement that touches the Query are commented out
reset_input(system, in) ==
    IF system.executable = "reset_input"
    THEN [in EXCEPT !.analog_input = <<0, 0>>]
    ELSE in

\* the motion still to be accounted for after the system has run
Pending(system, sums) ==
    IF system.executable = "reset_input" THEN <<0, 0>> ELSE sums

(***************************************************************************)
(* Query                                                                   *)
(***************************************************************************)
\* Query::new: references to the tables of the haystack whose type_id is in
\* the filter, in the haystack's order.
Query_new_all(haystack, filter) == [i \in 1..Len(haystack) |-> i]

RECURSIVE Query_new(_, _)
Query_new(haystack, filter) ==
    IF haystack = << >> THEN << >>
    ELSE LET n    == Len(haystack)
             rest == Query_new(SubSeq(haystack, 1, n - 1), filter)
         IN IF haystack[n].type_id \in filter THEN Append(rest, n) ELSE rest

\* The keys of a HashMap in an iteration order (which the map leaves open).
RECURSIVE Keys(_)
Keys(data) ==
    IF DOMAIN data = {} THEN << >>
    ELSE LET k == CHOOSE x \in DOMAIN data : TRUE
         IN <<k>> \o Keys([e \in DOMAIN data \ {k} |-> data[e]])

\* Query::get_entities::<T>
get_entities_of_all(store, matches, T) ==
    Keys([e \in {k \in UNION {DOMAIN store[matches[i]].data :
                                 i \in {j \in 1..Len(matches) :
                                          store[matches[j]].type_id = T}} :
                    \A i \in 1..Len(matches) :
                        k \in DOMAIN store[matches[i]].data} |-> 0])

RECURSIVE get_entities(_, _, _)
get_entities(store, matches, T) ==
    IF matches = << >> THEN << >>
    ELSE LET e == store[Head(matches)]
         IN (IF e.type_id = T THEN Keys(e.data) ELSE << >>)
              \o get_entities(store, Tail(matches), T)

\* `.filter(|e| e.type_id == TypeId::of::<T>())` over Query.matches
RECURSIVE TablesOf(_, _, _)
TablesOf(store, matches, T) ==
    IF matches = << >> THEN << >>
    ELSE (IF store[Head(matches)].type_id = T THEN <<Head(matches)>>
          ELSE << >>)
           \o TablesOf(store, Tail(matches), T)

\* Query::get::<T>: the Arc of the entity in the first table of the type
get_unfiltered(store, matches, T, ent) ==
    IF matches = << >> THEN None
    ELSE LET data == store[Head(matches)].data
         IN IF ent \in DOMAIN data THEN data[ent] ELSE None

get(store, matches, T, ent) ==
    LET found == TablesOf(store, matches, T)
    IN IF found = << >> THEN None
       ELSE LET data == store[Head(found)].data
            IN IF ent \in DOMAIN data THEN data[ent] ELSE None

\* Query::get_all::<T>: the (entity, Arc) pairs of the tables of the type,
\* collected into a HashMap
RECURSIVE get_all(_, _, _)
get_all(store, matches, T) ==
    IF matches = << >> THEN << >>
    ELSE LET n    == Len(matches)
             rest == get_all(store, SubSeq(matches, 1, n - 1), T)
             last == store[matches[n]]
         IN IF last.type_id = T
            THEN [e \in DOMAIN rest \cup DOMAIN last.data |->
                    IF e \in DOMAIN last.data THEN last.data[e] ELSE rest[e]]
            ELSE rest

\* The (entity, Arc) pairs `each` and `all` iterate for a type, in order.
RECURSIVE Targets(_, _, _)
Targets(store, matches, T) ==
    IF matches = << >> THEN << >>
    ELSE LET e    == store[Head(matches)]
             keys == Keys(e.data)
         IN (IF e.type_id = T
             THEN [i \in 1..Len(keys) |-> <<keys[i], e.data[keys[i]]>>]
             ELSE << >>)
              \o Targets(store, Tail(matches), T)

(***************************************************************************)
(* std::sync::Mutex                                                        *)
(***************************************************************************)
Holders(c) == {l[2] : l \in {k \in locks : k[1] = c}}

\* lock() returns only when nobody holds the Mutex
Free_always(c) == TRUE

Free(c) == Holders(c) = {}

Mutex_lock(c, holder) == locks \cup {<<c, holder>>}

\* MutexGuard::drop
Mutex_unlock(released, holder) ==
    locks \ {<<c, holder>> : c \in released}

\* lock() of a Mutex whose poison flag is set returns Err(PoisonError)
Poisoned_never(c) == FALSE

Poisoned(c) == c \in poisoned

\* a MutexGuard dropped while its thread is panicking sets the poison flag
Mutex_poison(released) == poisoned \cup released

(***************************************************************************)
(* World::tick                                                             *)
(***************************************************************************)
\* Duration::as_secs_f32 of a Duration of `secs` s and `nanos` ns:
\* (secs as f32) + (nanos as f32) / (NANOS_PER_SEC as f32)
as_secs_f32(secs, nanos) ==
    F32Add(F32FromInt(secs),
           F32Div(F32FromInt(nanos), F32FromInt(NanosPerSec)))

\* `while self.accumulator >= self.period`
LoopTest_strict(acc) ==
    IF F32Ge(acc, period) /\ acc # period THEN "fixed" ELSE "dependent"

LoopTest(acc) == IF F32Ge(acc, period) THEN "fixed" ELSE "dependent"

\* Whole seconds the caller can let pass between two ticks, on top of one
\* of Deltas.
Stalls == {0, 8388608}

\* Lines 100-104, called `stall` s and one of Deltas after the previous tick.
\* Instant::now() is read at t1, and read again at t2 inside
\* previous_time.elapsed().  clock, previous_time and the deltas count the
\* nanoseconds without the stalls.
Tick(stall) ==
    /\ pc = "idle" /\ ~panicked
    /\ ticks < MaxTicks
    /\ \E d \in Deltas, s \in Skews :
        /\ d + s <= MaxClock - clock
        /\ LET t1         == clock + d
               t2         == t1 + s
               delta_time == t2 - previous_time
           IN /\ clock' = t2
              /\ previous_time' = t1
              /\ tick_delta' = delta_time
              /\ total_delta' = total_delta + delta_time
              /\ accumulator' =
                    F32Add(accumulator,
                           as_secs_f32(stall + delta_time \div NanosPerSec,
                                       delta_time % NanosPerSec))
              /\ pc' = LoopTest(accumulator')
    /\ idx' = 1
    /\ log' = << >>
    /\ passes' = 0
    /\ ticks' = ticks + 1
    \* the records of the store operations start anew with each tick
    /\ lastOp' = NoOp
    /\ returned' = << >>
    /\ UNCHANGED <<running, total_passes, components, cells, added, given,
                   entities, entities_base, current_id, panicked, systemVars,
                   buildVars, appVars, queryVars>>

\* a tick without a stall
TickStart == Tick(0)

\* a tick after any of Stalls
TickStalled == \E stall \in Stalls : Tick(stall)

\* The counters of passes count up to MaxPasses, and the log records the
\* first MaxLog events of a tick.
Counted(n) == IF n < MaxPasses THEN n + 1 ELSE n

Recorded(l, ev) == IF Len(l) < MaxLog THEN Append(l, ev) ELSE l

\* The list the for_each of the current phase iterates.
Systems_DependentInLoop ==
    IF pc = "fixed" THEN fixed_systems \o dependent_systems
    ELSE dependent_systems

Systems_Swapped == IF pc = "fixed" THEN dependent_systems ELSE fixed_systems

Systems == IF pc = "fixed" THEN fixed_systems ELSE dependent_systems

\* The element iter_mut() yields at position i.
Yield(list, i) == list[i]

Event(ev, system) ==
    [ev |-> ev, phase |-> pc, pass |-> passes, name |-> system.name]

\* s.execute(Query::new(&mut self.components, s.components())) is entered
SystemBegin ==
    /\ pc \in {"fixed", "dependent"} /\ ~running
    /\ idx <= Len(Systems)
    /\ running' = TRUE
    /\ log' = Recorded(log, Event("begin", Yield(Systems, idx)))
    /\ query' = Query_new(components, Yield(Systems, idx).components)
    /\ calls' = 0
    /\ UNCHANGED <<previous_time, accumulator, clock, pc, idx, passes,
                   tick_delta, ticks, total_delta, total_passes, storeVars,
                   entityVars, systemVars, buildVars, appVars, call, locks, poisoned, result,
                   presented, invoked, wrote>>

\* ... and returns
SystemEnd ==
    /\ pc \in {"fixed", "dependent"} /\ running
    /\ ~panicked /\ call.op = "none"
    /\ running' = FALSE
    /\ log' = Recorded(log, Event("end", Yield(Systems, idx)))
    /\ idx' = idx + 1
    /\ query' = << >>
    /\ calls' = 0
    /\ result' = NoResult
    /\ presented' = << >>
    /\ invoked' = << >>
    /\ wrote' = NoWrite
    /\ input' = reset_input(Yield(Systems, idx), input)
    /\ received' = Pending(Yield(Systems, idx), received)
    /\ UNCHANGED <<previous_time, accumulator, clock, pc, passes, tick_delta,
                   ticks, total_delta, total_passes, storeVars, entityVars,
                   systemVars, buildVars, vertex_buffers, instances, fatal,
                   call, locks, poisoned>>

\* Line 110, after the for_each of a fixed pass, and the next loop test
PassEnd ==
    /\ pc = "fixed" /\ ~running
    /\ idx > Len(Systems)
    /\ accumulator' = F32Sub(accumulator, period)
    /\ pc' = LoopTest(accumulator')
    /\ idx' = 1
    /\ passes' = Counted(passes)
    /\ total_passes' = Counted(total_passes)
    /\ UNCHANGED <<previous_time, clock, running, log, tick_delta, ticks,
                   total_delta, storeVars, entityVars, systemVars, buildVars, appVars,
                   queryVars>>

\* tick returns after the for_each over the dependent systems
TickEnd ==
    /\ pc = "dependent" /\ ~running
    /\ idx > Len(Systems)
    /\ pc' = "idle"
    /\ idx' = 1
    /\ UNCHANGED <<previous_time, accumulator, clock, running, log, passes,
                   tick_delta, ticks, total_delta, total_passes, storeVars,
                   entityVars, systemVars, buildVars, appVars, queryVars>>

(***************************************************************************)
(* The Query operations a system calls while it executes                   *)
(***************************************************************************)
\* the executing system is between two Query operations
Calling ==
    /\ running /\ ~panicked
    /\ call.op = "none"
    /\ calls < MaxCalls

Query_get_entities ==
    /\ Calling
    /\ \E T \in Types :
        result' = [op |-> "get_entities", type |-> T, entity |-> U32Zero,
                   value |-> get_entities(components, query, T)]
    /\ calls' = calls + 1
    /\ presented' = << >>
    /\ invoked' = << >>
    /\ UNCHANGED <<worldVars, cells, panicked, query, call, locks, poisoned, wrote>>

\* get::<T>(ent) of the executing system
Get_waiting(T, ent) ==
    /\ Calling
    /\ get(components, query, T, ent) # None =>
            Free(get(components, query, T, ent))
    /\ result' = [op |-> "get", type |-> T, entity |-> ent,
                  value |-> get(components, query, T, ent)]
    /\ calls' = calls + 1
    /\ presented' = << >>
    /\ invoked' = << >>
    /\ UNCHANGED <<worldVars, cells, panicked, query, call, locks, poisoned, wrote>>

Get(T, ent) ==
    /\ Calling
    /\ result' = [op |-> "get", type |-> T, entity |-> ent,
                  value |-> get(components, query, T, ent)]
    /\ calls' = calls + 1
    /\ presented' = << >>
    /\ invoked' = << >>
    /\ UNCHANGED <<worldVars, cells, panicked, query, call, locks, poisoned, wrote>>

Query_get == \E T \in Types, ent \in Issued : Get(T, ent)

\* get_all::<T>() of the executing system
GetAll(T) ==
    /\ Calling
    /\ result' = [op |-> "get_all", type |-> T, entity |-> U32Zero,
                  value |-> get_all(components, query, T)]
    /\ calls' = calls + 1
    /\ presented' = << >>
    /\ invoked' = << >>
    /\ UNCHANGED <<worldVars, cells, panicked, query, call, locks, poisoned, wrote>>

Query_get_all == \E T \in Types : GetAll(T)

\* `*guard = v`: the value behind the Mutex of a cell is replaced
Assign_copy(c, v) == cells

Assign(c, v) == [cells EXCEPT ![c].value = v]

\* a write makes the maps handed out before it stale
Stale(maps) == [i \in DOMAIN maps |-> [maps[i] EXCEPT !.stale = TRUE]]

\* f writes v through the &mut T it was given for an entity
Write(target, T, v) ==
    /\ cells' = Assign(target[2], v)
    /\ wrote' = [entity |-> target[1], type |-> T, value |-> v,
                 call |-> calls]
    /\ presented' = Stale(presented)

\* Query::each::<T> is entered: the iteration of lines 93-97 is set up
Query_each ==
    /\ Calling
    /\ \E T \in Types :
        call' = [op |-> "each", type |-> T,
                 todo |-> Targets(components, query, T), held |-> {},
                 phase |-> "lock", fs |-> 0]
    /\ calls' = calls + 1
    /\ result' = NoResult
    /\ presented' = << >>
    /\ invoked' = << >>
    /\ UNCHANGED <<worldVars, cells, panicked, query, locks, poisoned, wrote>>

\* line 98, `v.lock()`: returns once the Mutex is free
each_lock ==
    /\ call.op = "each" /\ call.phase = "lock" /\ ~panicked
    /\ call.todo # << >>
    /\ Free(Head(call.todo)[2])
    /\ IF Poisoned(Head(call.todo)[2])
       THEN \* unwrap() panics on the Err, whose guard is dropped
            /\ panicked' = TRUE
            /\ call' = [call EXCEPT !.phase = "poison"]
            /\ UNCHANGED locks
       ELSE /\ locks' = Mutex_lock(Head(call.todo)[2], "query")
            /\ call' = [call EXCEPT !.held = {Head(call.todo)}, !.phase = "f"]
            /\ UNCHANGED panicked
    /\ UNCHANGED <<worldVars, cells, query, calls, poisoned, result, presented,
                   invoked, wrote>>

\* line 98, `f(... .downcast_mut::<T>().unwrap())`, and the temporary guard
\* is dropped at the end of the statement
each_f_keeping_guard ==
    /\ call.op = "each" /\ call.phase = "f" /\ ~panicked
    /\ LET target == Head(call.todo)
       IN /\ panicked' = (cells[target[2]].type # call.type)
          /\ IF panicked' THEN UNCHANGED <<cells, wrote, presented, invoked>>
             ELSE /\ invoked' = Append(invoked, target[1])
                  /\ \/ UNCHANGED <<cells, wrote, presented>>
                     \/ \E v \in CellValues \ {cells[target[2]].value} :
                            Write(target, call.type, v)
          /\ UNCHANGED locks
          /\ poisoned' = IF panicked' THEN Mutex_poison({target[2]})
                         ELSE poisoned
    /\ call' = [call EXCEPT !.held = {}, !.todo = Tail(call.todo),
                            !.phase = "lock"]
    /\ UNCHANGED <<worldVars, query, calls, result>>

each_f ==
    /\ call.op = "each" /\ call.phase = "f" /\ ~panicked
    /\ LET target == Head(call.todo)
       IN /\ panicked' = (cells[target[2]].type # call.type)
          /\ IF panicked' THEN UNCHANGED <<cells, wrote, presented, invoked>>
             ELSE /\ invoked' = Append(invoked, target[1])
                  /\ \/ UNCHANGED <<cells, wrote, presented>>
                     \/ \E v \in CellValues \ {cells[target[2]].value} :
                            Write(target, call.type, v)
          /\ locks' = Mutex_unlock({target[2]}, "query")
          /\ poisoned' = IF panicked' THEN Mutex_poison({target[2]})
                         ELSE poisoned
    /\ call' = [call EXCEPT !.held = {}, !.todo = Tail(call.todo),
                            !.phase = "lock"]
    /\ UNCHANGED <<worldVars, query, calls, result>>

\* the for_each of line 96 is exhausted and each returns
each_return ==
    /\ call.op = "each" /\ call.phase = "lock" /\ ~panicked
    /\ call.todo = << >>
    /\ call' = NoCall
    /\ UNCHANGED <<worldVars, cells, panicked, query, calls, locks, poisoned, result,
                   presented, invoked, wrote>>

\* Query::all::<T> is entered: the iteration of lines 112-118 is set up
Query_all ==
    /\ Calling
    /\ \E T \in Types :
        call' = [op |-> "all", type |-> T,
                 todo |-> Targets(components, query, T), held |-> {},
                 phase |-> "lock", fs |-> 0]
    /\ calls' = calls + 1
    /\ result' = NoResult
    /\ invoked' = << >>
    /\ UNCHANGED <<worldVars, cells, panicked, query, locks, poisoned, presented, wrote>>

\* line 119, `v.lock().unwrap()`: returns once the Mutex is free, and the
\* guard is kept in `data`
all_lock_one_at_a_time ==
    /\ call.op = "all" /\ call.phase = "lock" /\ ~panicked
    /\ call.todo # << >>
    /\ Free(Head(call.todo)[2])
    /\ locks' = (locks \ {<<t[2], "query">> : t \in call.held})
                    \cup {<<Head(call.todo)[2], "query">>}
    /\ call' = [call EXCEPT !.held = {Head(call.todo)},
                            !.todo = Tail(call.todo)]
    /\ UNCHANGED <<worldVars, cells, panicked, query, calls, poisoned, result,
                   presented, invoked, wrote>>

all_lock ==
    /\ call.op = "all" /\ call.phase = "lock" /\ ~panicked
    /\ call.todo # << >>
    /\ Free(Head(call.todo)[2])
    /\ IF Poisoned(Head(call.todo)[2])
       THEN \* unwrap() panics on the Err, and the unwinding drops `data`
            /\ panicked' = TRUE
            /\ locks' = Mutex_unlock({t[2] : t \in call.held}, "query")
            /\ poisoned' = Mutex_poison({t[2] : t \in call.held})
            /\ call' = [call EXCEPT !.held = {}, !.phase = "poison"]
       ELSE /\ locks' = Mutex_lock(Head(call.todo)[2], "query")
            /\ call' = [call EXCEPT !.held = call.held \cup {Head(call.todo)},
                                    !.todo = Tail(call.todo)]
            /\ UNCHANGED <<panicked, poisoned>>
    /\ UNCHANGED <<worldVars, cells, query, calls, result, presented, invoked,
                   wrote>>

\* line 119 on a Mutex whose guard `data` already keeps (a table that holds
\* one Arc for two entities): lock() on the thread that holds the Mutex does
\* not return; it panics, and the unwinding drops the guards, or it
\* deadlocks.
all_relock ==
    /\ call.op = "all" /\ call.phase = "lock" /\ ~panicked
    /\ call.todo # << >>
    /\ "query" \in Holders(Head(call.todo)[2])
    /\ \/ /\ panicked' = TRUE
          /\ locks' = Mutex_unlock({t[2] : t \in call.held}, "query")
          /\ poisoned' = Mutex_poison({t[2] : t \in call.held})
          /\ call' = [call EXCEPT !.held = {}, !.phase = "panic"]
       \/ /\ call' = [call EXCEPT !.phase = "deadlock"]
          /\ UNCHANGED <<panicked, locks, poisoned>>
    /\ UNCHANGED <<worldVars, cells, query, calls, result, presented, invoked,
                   wrote>>

\* the map `all` hands to f: the values behind the guards it holds
Presented(held) ==
    [e \in {t[1] : t \in held} |->
        cells[(CHOOSE t \in held : t[1] = e)[2]].value]

\* lines 124-135: every guard is downcast, and f is called with the map
all_f_skipping_empty ==
    /\ call.op = "all" /\ call.phase = "lock" /\ ~panicked
    /\ call.todo = << >>
    /\ panicked' = (\E t \in call.held : cells[t[2]].type # call.type)
    /\ IF panicked'
       THEN /\ locks' = Mutex_unlock({t[2] : t \in call.held}, "query")
            /\ poisoned' = Mutex_poison({t[2] : t \in call.held})
            /\ call' = [call EXCEPT !.held = {}, !.phase = "panic"]
            /\ UNCHANGED presented
       ELSE IF call.held = {}
       THEN /\ call' = NoCall
            /\ UNCHANGED <<locks, poisoned, presented>>
       ELSE /\ call' = [call EXCEPT !.phase = "f", !.fs = @ + 1]
            /\ presented' =
                 <<[type |-> call.type, map |-> Presented(call.held),
                    stale |-> FALSE]>>
                   \o SubSeq(presented, 1, IF presented = << >> THEN 0 ELSE 1)
            /\ UNCHANGED <<locks, poisoned>>
    /\ UNCHANGED <<worldVars, cells, query, calls, result, invoked, wrote>>

all_f ==
    /\ call.op = "all" /\ call.phase = "lock" /\ ~panicked
    /\ call.todo = << >>
    /\ panicked' = (\E t \in call.held : cells[t[2]].type # call.type)
    /\ IF panicked'
       THEN /\ locks' = Mutex_unlock({t[2] : t \in call.held}, "query")
            /\ poisoned' = Mutex_poison({t[2] : t \in call.held})
            /\ call' = [call EXCEPT !.held = {}, !.phase = "panic"]
            /\ UNCHANGED presented
       ELSE /\ call' = [call EXCEPT !.phase = "f", !.fs = @ + 1]
            /\ presented' =
                 <<[type |-> call.type, map |-> Presented(call.held),
                    stale |-> FALSE]>>
                   \o SubSeq(presented, 1, IF presented = << >> THEN 0 ELSE 1)
            /\ UNCHANGED <<locks, poisoned>>
    /\ UNCHANGED <<worldVars, cells, query, calls, result, invoked, wrote>>

\* an f that writes through none of the &mut T of its map
NoTarget == <<U32Zero, None>>

\* f returns, having left the value behind the &mut T of `target` at v
\* (written it, if it was another), and `data` is dropped with the guards
AllReturn_taking(target, v) ==
    /\ call.op = "all" /\ call.phase = "f" /\ ~panicked
    /\ target \in call.held \cup {NoTarget}
    /\ IF target = NoTarget \/ cells[target[2]].value = v
       THEN /\ cells' = [c \in DOMAIN cells |->
                          IF c \in {t[2] : t \in call.held}
                          THEN [cells[c] EXCEPT !.value = 0] ELSE cells[c]]
            /\ UNCHANGED <<wrote, presented>>
       ELSE Write(target, call.type, v)
    /\ locks' = Mutex_unlock({t[2] : t \in call.held}, "query")
    /\ call' = NoCall
    /\ UNCHANGED <<worldVars, panicked, query, calls, poisoned, result, invoked>>

AllReturn(target, v) ==
    /\ call.op = "all" /\ call.phase = "f" /\ ~panicked
    /\ target \in call.held \cup {NoTarget}
    /\ IF target = NoTarget \/ cells[target[2]].value = v
       THEN UNCHANGED <<cells, wrote, presented>>
       ELSE Write(target, call.type, v)
    /\ locks' = Mutex_unlock({t[2] : t \in call.held}, "query")
    /\ call' = NoCall
    /\ UNCHANGED <<worldVars, panicked, query, calls, poisoned, result, invoked>>

all_return ==
    \E target \in call.held \cup {NoTarget}, v \in CellValues :
        AllReturn(target, v)

(***************************************************************************)
(* A holder of a clone of an Arc<Mutex<T>> given to share_component, on    *)
(* another thread                                                          *)
(***************************************************************************)
Shared == {c \in 1..Len(cells) : cells[c].external}

\* The holder locks one cell at a time, and gives up on a poisoned one.
ExternalLock(c) ==
    /\ ~panicked
    /\ \A d \in Shared : "external" \notin Holders(d)
    /\ Free(c) /\ ~Poisoned(c)
    /\ locks' = Mutex_lock(c, "external")
    /\ UNCHANGED <<worldVars, cells, panicked, query, call, calls, poisoned,
                   result, presented, invoked, wrote>>

external_lock == \E c \in Shared : ExternalLock(c)

ExternalWrite(c) ==
    /\ ~panicked
    /\ "external" \in Holders(c)
    /\ \E v \in CellValues \ {cells[c].value} : cells' = Assign(c, v)
    /\ presented' = Stale(presented)
    /\ UNCHANGED <<worldVars, panicked, query, call, calls, locks, poisoned, result,
                   invoked, wrote>>

external_write == \E c \in Shared : ExternalWrite(c)

ExternalUnlock_keeping(c) ==
    /\ ~panicked
    /\ "external" \in Holders(c)
    /\ locks' = locks
    /\ UNCHANGED <<worldVars, cells, panicked, query, call, calls, poisoned,
                   result, presented, invoked, wrote>>

ExternalUnlock(c) ==
    /\ ~panicked
    /\ "external" \in Holders(c)
    /\ locks' = Mutex_unlock({c}, "external")
    /\ UNCHANGED <<worldVars, cells, panicked, query, call, calls, poisoned,
                   result, presented, invoked, wrote>>

external_unlock == \E c \in Shared : ExternalUnlock(c)

\* The holder's thread panics while it holds the guard: the unwinding drops
\* the guard, which sets the poison flag.  The World's thread goes on.
ExternalPanic(c) ==
    /\ ~panicked
    /\ "external" \in Holders(c)
    /\ locks' = Mutex_unlock({c}, "external")
    /\ poisoned' = Mutex_poison({c})
    /\ UNCHANGED <<worldVars, cells, panicked, query, call, calls, result,
                   presented, invoked, wrote>>

external_panic == \E c \in Shared : ExternalPanic(c)

(***************************************************************************)
(* Specifications.  NextStore are the operations on the entity registry    *)
(* and the component store, NextSched the registration of systems and the  *)
(* steps of tick.  Spec is the whole World; SpecStore and SpecSched are    *)
(* the World driven through one group of operations only, which is what    *)
(* keeps their state spaces small enough to be explored completely.        *)
(***************************************************************************)
NextStore ==
    \/ new_entity
    \/ add_component
    \/ share_component

NextSched ==
    \/ add_fixed_system
    \/ add_dependent_system
    \/ TickStart
    \/ SystemBegin
    \/ SystemEnd
    \/ PassEnd
    \/ TickEnd

NextQuery ==
    \/ Query_get_entities
    \/ Query_get
    \/ Query_get_all
    \/ Query_each
    \/ each_lock
    \/ each_f
    \/ each_return
    \/ Query_all
    \/ all_lock
    \/ all_relock
    \/ all_f
    \/ all_return

NextExternal ==
    \/ external_lock
    \/ external_write
    \/ external_unlock

Next == NextStore \/ NextSched \/ NextQuery \/ NextExternal

Spec == Init /\ [][Next]_vars

SpecStore == Init /\ [][NextStore]_vars

\* ... and with entries removed from single tables
NextRemove ==
    \/ NextStore
    \/ Component_remove_entity

SpecRemove == Init /\ [][NextRemove]_vars

SpecSched == Init /\ [][NextSched]_vars

\* The World after u32::MAX calls of new_entity.
InitWrap == \E f \in Freqs : Build(f, U32Max)

SpecWrap == InitWrap /\ [][NextStore]_vars

\* The World and the external holders of its shared cells: a World built at
\* the highest of Freqs is populated, registers dependent systems and is
\* ticked, at most MaxQuerySystems systems and MaxQueryTicks ticks, the
\* ticks as close to one another as Deltas allows.
InitQuery == Build(CHOOSE f \in Freqs : \A g \in Freqs : g <= f, U32Zero)

QueryDriver ==
    /\ registered' <= MaxQuerySystems
    /\ ticks' <= MaxQueryTicks
    /\ \A d \in Deltas : clock' - clock <= d

NextDriven ==
    \/ NextStore
    \/ RegisterDependent(QueryFilters) /\ QueryDriver
    \/ TickStart /\ QueryDriver
    \/ SystemBegin
    \/ SystemEnd
    \/ TickEnd
    \/ NextQuery
    \/ NextExternal

SpecQuery == InitQuery /\ [][NextDriven]_vars

\* The same World with an external holder whose thread can panic while it
\* holds a guard: at most MaxPoisonSystems dependent systems, each of which
\* makes at most MaxPoisonCalls calls of each or all, with an f that only
\* reads.
PoisonDriver ==
    /\ registered' <= MaxPoisonSystems
    /\ ticks' <= MaxQueryTicks
    /\ \A d \in Deltas : clock' - clock <= d
    /\ calls' <= MaxPoisonCalls
    /\ cells' = cells \/ Len(cells') > Len(cells)

NextPoison ==
    \/ NextStore
    \/ RegisterDependent(QueryFilters) /\ PoisonDriver
    \/ TickStart /\ PoisonDriver
    \/ SystemBegin
    \/ SystemEnd
    \/ TickEnd
    \/ Query_each /\ PoisonDriver
    \/ each_lock
    \/ each_f /\ PoisonDriver
    \/ each_return
    \/ Query_all /\ PoisonDriver
    \/ all_lock
    \/ all_relock
    \/ all_f
    \/ all_return /\ PoisonDriver
    \/ external_lock
    \/ external_unlock
    \/ external_panic

SpecPoison == InitQuery /\ [][NextPoison]_vars

\* A World that is set up before its first tick with entities, components
\* of one type and fixed systems, each of which calls
\* all::<T>(|m| *m.get_mut(e) += Increment) once per execution.
Increment == 1

Setup == ticks = 0

FixedDriver ==
    /\ Len(cells') <= MaxFixedCells
    /\ registered' <= MaxFixedSystems
    /\ \A c \in DOMAIN cells' : \A d \in DOMAIN cells' :
            cells'[c].type = cells'[d].type
    /\ call'.op = "all" /\ call.op = "none" =>
            /\ calls' = 1
            /\ \A c \in DOMAIN cells : call'.type = cells[c].type

\* f of the fixed system returns
Add_return ==
    \E target \in call.held \cup {NoTarget} :
        /\ call.held # {} => target # NoTarget
        /\ AllReturn(target, IF target = NoTarget THEN 0
                             ELSE cells[target[2]].value + Increment)

NextFixed ==
    \/ new_entity /\ Setup
    \/ add_component /\ Setup /\ FixedDriver
    \/ add_fixed_system /\ Setup /\ FixedDriver
    \/ TickStart
    \/ SystemBegin
    \/ Query_all /\ FixedDriver
    \/ all_lock
    \/ all_f
    \/ Add_return
    \/ SystemEnd /\ calls = 1
    \/ PassEnd
    \/ TickEnd

SpecFixed == Init /\ [][NextFixed]_vars

\* A World with fixed systems, at most MaxStallSystems, that is ticked at
\* most MaxQueryTicks times, after a stall or as soon as Deltas allows.
\* tick is sequential code on a thread that keeps running, and a system's
\* execute returns: every step of a tick that can be taken is taken
\* eventually.  No caller is bound to call tick.
StallDriver ==
    /\ registered' <= MaxStallSystems
    /\ ticks' <= MaxQueryTicks
    /\ \A d \in Deltas : clock' - clock <= d
    /\ ticks' > ticks => fixed_systems # << >>

NextStall ==
    \/ add_fixed_system /\ StallDriver
    \/ TickStalled /\ StallDriver
    \/ SystemBegin
    \/ SystemEnd
    \/ PassEnd
    \/ TickEnd

\* The World of SpecQuery with a system that makes at most MaxContendCalls
\* calls of each or all, and an external holder that locks and unlocks the
\* shared cells.  The holder releases a lock it holds, and a lock() that
\* finds the Mutex free again and again is not overtaken for ever.
ContendDriver ==
    /\ QueryDriver
    /\ calls' <= MaxContendCalls

NextContend ==
    \/ NextStore
    \/ RegisterDependent(QueryFilters) /\ ContendDriver
    \/ TickStart /\ ContendDriver
    \/ SystemBegin
    \/ SystemEnd
    \/ TickEnd
    \/ Query_each /\ ContendDriver
    \/ each_lock
    \/ each_f
    \/ each_return
    \/ Query_all /\ ContendDriver
    \/ all_lock
    \/ all_relock
    \/ all_f
    \/ all_return
    \/ external_lock
    \/ external_unlock

SpecContend ==
    /\ InitQuery /\ [][NextContend]_vars
    /\ WF_vars(external_unlock)
    /\ SF_vars(each_lock) /\ SF_vars(all_lock)

SpecStall ==
    /\ Init /\ [][NextStall]_vars
    /\ WF_vars(SystemBegin) /\ WF_vars(SystemEnd)
    /\ WF_vars(PassEnd) /\ WF_vars(TickEnd)

(***************************************************************************)
(* Properties of the scheduler (checked under SpecSched).                  *)
(***************************************************************************)
\* The period 1/frequency s in nanoseconds (exact for the frequencies of
\* Freqs, which divide 10^9).
PeriodNs == NanosPerSec \div frequency

\* The positions of the log where system `name` begins / ends an execution.
Begins(name) == {i \in 1..Len(log) : log[i].ev = "begin" /\ log[i].name = name}
Ends(name) == {i \in 1..Len(log) : log[i].ev = "end" /\ log[i].name = name}

Names(list) == {list[i].name : i \in 1..Len(list)}

\* tick is about to return: both phases are over.
AtReturn == pc = "dependent" /\ ~running /\ idx > Len(dependent_systems)

\* C1: a tick whose delta is exactly k periods runs every fixed system exactly
\* k times and every dependent system exactly once, whatever remainder the
\* accumulator held.
C1_ExactDeltaRunsKTimes ==
    (AtReturn /\ tick_delta % PeriodNs = 0) =>
        /\ \A n \in Names(fixed_systems) :
              Cardinality(Ends(n)) = tick_delta \div PeriodNs
        /\ \A n \in Names(dependent_systems) : Cardinality(Ends(n)) = 1

\* C2: after any sequence of ticks the number of fixed passes performed so far
\* is floor(sum of the deltas / period).
C2_TotalPassesIsFloor ==
    pc = "idle" => total_passes = total_delta \div PeriodNs

\* C3: every call of tick runs each registered dependent system exactly once,
\* whatever number of fixed passes the tick performs.
C3_DependentOncePerTick ==
    AtReturn =>
        \A n \in Names(dependent_systems) :
            Cardinality(Begins(n)) = 1 /\ Cardinality(Ends(n)) = 1

C3_Witness ==
    /\ AtReturn /\ passes >= 2
    /\ Len(dependent_systems) = 2 /\ Len(fixed_systems) >= 1
    /\ \A n \in Names(dependent_systems) : Cardinality(Ends(n)) = 1

\* The executions of the log never overlap: a begin is followed at once by the
\* end of the same execution, and only the last begin may still be open.
NoOverlap ==
    \A i \in 1..Len(log) :
        /\ log[i].ev = "begin" =>
              IF i = Len(log) THEN running
              ELSE log[i + 1] = [log[i] EXCEPT !.ev = "end"]
        /\ log[i].ev = "end" =>
              i > 1 /\ log[i - 1] = [log[i] EXCEPT !.ev = "begin"]

\* Every execution that has begun was preceded, in its pass, by the completed
\* executions of all systems of the list registered before it.
EarlierEndedFirst(list, ph) ==
    \A y \in 1..Len(log) :
        (log[y].ev = "begin" /\ log[y].phase = ph) =>
            \A a \in Names(list) :
                a < log[y].name =>
                    \E x \in 1..(y - 1) : log[x] = [log[y] EXCEPT !.ev = "end",
                                                                  !.name = a]

\* Pass p of phase ph has executed every system of the list.
PassComplete(list, ph, p) ==
    \A b \in Names(list) :
        \E y \in 1..Len(log) :
            log[y] = [ev |-> "end", phase |-> ph, pass |-> p, name |-> b]

\* C4: systems run strictly sequentially in registration order: in every fixed
\* pass of every tick a system registered earlier has completed before one
\* registered later begins, no two executions overlap, and the same holds for
\* the dependent list.
C4_SequentialInRegistrationOrder ==
    /\ NoOverlap
    /\ pc # "idle" =>
          /\ EarlierEndedFirst(fixed_systems, "fixed")
          /\ EarlierEndedFirst(dependent_systems, "dependent")
          /\ \A p \in 0..(passes - 1) : PassComplete(fixed_systems, "fixed", p)
    /\ AtReturn => PassComplete(dependent_systems, "dependent", passes)

C4_Witness ==
    /\ AtReturn /\ passes >= 2
    /\ Len(fixed_systems) = 2 /\ Len(dependent_systems) = 2
    /\ Len(log) = 4 * passes + 4

\* C5: within one tick all fixed passes complete before any dependent system
\* starts, and no fixed system runs after a dependent system has started.
C5_FixedBeforeDependent ==
    \A j \in 1..Len(log) :
        log[j].name \in Names(dependent_systems) =>
            /\ ~F32Ge(accumulator, period)
            /\ \A i \in 1..Len(log) :
                  log[i].name \in Names(fixed_systems) =>
                      i < j /\ (log[i].ev = "begin" => log[i + 1].ev = "end")

C5_Witness ==
    /\ AtReturn /\ passes >= 2
    /\ Len(fixed_systems) >= 1 /\ Len(dependent_systems) >= 1
    /\ log[Len(log)].name \in Names(dependent_systems)
    /\ log[1].name \in Names(fixed_systems)

\* C6: each tick uses one clock reading: the deltas add up to the time between
\* the construction of the World (time 0) and the stored previous_time.
C6_DeltasSumToPreviousTime ==
    total_delta = previous_time

(***************************************************************************)
(* Properties of the entity registry and the component store (checked      *)
(* under SpecStore; C8 under SpecWrap).                                    *)
(***************************************************************************)
\* The identifier the n-th call of new_entity is to return: n - 1.
NthId(n) == <<(n - 1) \div Half, (n - 1) % Half>>

\* C7: new_entity issues identifiers in strictly increasing creation order
\* starting from 0: the n-th call returns the entity with id n - 1, unequal to
\* every entity issued before it, and records it in the entity list.
C7_IdsIncreaseFromZero ==
    /\ \A n \in 1..Len(entities) :
          /\ entities[n] = NthId(n)
          /\ \A k \in 1..(n - 1) :
                entities[k] # entities[n] /\ U32Lt(entities[k], entities[n])
    /\ returned # << >> => returned[1] = entities[Len(entities)]
    /\ (returned = << >>) = (entities = << >>)
    /\ ~panicked

C7_Witness ==
    Len(entities) = MaxEntities /\ returned = <<NthId(MaxEntities)>>

\* C8: new_entity has no failure mode and never reuses an identifier, also
\* after more calls than the 32-bit counter can count.
C8_NeverFailsNeverReuses ==
    /\ ~panicked
    /\ \A n \in 1..Len(entities) :
          /\ ~U32Lt(entities[n], entities_base)
          /\ \A k \in 1..(n - 1) : entities[k] # entities[n]

\* How often x occurs in a sequence.
Count(seq, x) == Cardinality({i \in 1..Len(seq) : seq[i] = x})

\* C9: after add_component(e, v) with v of type T, a Query whose filter
\* contains T returns e exactly once from get_entities::<T>(), also when e
\* already had a T component or T components were added for other entities
\* before or after.
C9_AddedEntityListedOnce ==
    \A p \in added :
        \A filter \in SUBSET Types :
            p[2] \in filter =>
                Count(get_entities(components,
                                   Query_new(components, filter), p[2]),
                      p[1]) = 1

C9_Witness ==
    /\ lastOp.op = "add_component"
    /\ \E i \in 1..Len(components) :
          /\ components[i].type_id = lastOp.type
          /\ Cardinality(DOMAIN components[i].data) = 2
    /\ Count(get_entities(components, Query_new(components, Types),
                          lastOp.type), lastOp.entity) = 1

\* The cells the World references: those of all entries of all tables.
WorldCells ==
    UNION {{components[i].data[e] : e \in DOMAIN components[i].data} :
              i \in 1..Len(components)}

\* The entries (table, entity) of the store that hold cell c.
EntriesOf(c) ==
    {<<i, e>> \in (1..Len(components)) \X Issued :
        e \in DOMAIN components[i].data /\ components[i].data[e] = c}

\* After a store operation on an entity that already had a component of the
\* type: one table of the type, one entry for the entity, holding the cell
\* just added.
LastWriteWins ==
    /\ Cardinality(Matching(components, lastOp.type)) = 1
    /\ Count(get_entities(components, Query_new(components, {lastOp.type}),
                          lastOp.type), lastOp.entity) = 1
    /\ CellOf(components, lastOp.entity, lastOp.type) = lastOp.cell

\* C10 as stated: adding a component of type T to an entity that already has
\* one overwrites it: table T holds exactly one entry for the entity, it is
\* the most recently added cell, and the World no longer references the
\* earlier cell.
C10_OverwriteDropsEarlierCell ==
    lastOp.earlier # 0 =>
        LastWriteWins /\ lastOp.earlier \notin WorldCells

\* C10 as amended: ... and the World's component store no longer references
\* the earlier cell, unless that cell is a shared cell which share_component
\* was also given for another entry or again for this one.
C10_OverwriteLastWriteWins ==
    lastOp.earlier # 0 =>
        /\ LastWriteWins
        /\ lastOp.earlier \in WorldCells =>
              /\ cells[lastOp.earlier].external
              /\ \/ lastOp.earlier = lastOp.cell
                 \/ \E x \in EntriesOf(lastOp.earlier) :
                        x[2] # lastOp.entity
                        \/ components[x[1]].type_id # lastOp.type

C10_Witness ==
    /\ lastOp.op = "add_component" /\ lastOp.earlier # 0
    /\ lastOp.earlier # lastOp.cell
    /\ lastOp.earlier \notin WorldCells
    /\ CellOf(components, lastOp.entity, lastOp.type) = lastOp.cell

(***************************************************************************)
(* C11.  After share_component(e, cell) the table entry of e is the        *)
(* caller's cell itself: the map all::<T> hands to f holds for e the value *)
(* that is in the caller's cell at that moment (whatever an external       *)
(* holder wrote there), and a value f writes for e is, when all returns,   *)
(* the value in the caller's cell.                                         *)
(***************************************************************************)
SharedPair(e, T) ==
    /\ <<e, T>> \in DOMAIN given
    /\ cells[given[<<e, T>>]].external

C11_SharedCellIsOneCell ==
    /\ [](call.op = "all" /\ call.phase = "f" =>
            \A e \in DOMAIN presented[1].map :
                SharedPair(e, call.type) =>
                    presented[1].map[e] = cells[given[<<e, call.type>>]].value)
    /\ [][call.op = "all" /\ wrote' # wrote /\ wrote'.type # "none"
            /\ SharedPair(wrote'.entity, wrote'.type)
           => cells'[given[<<wrote'.entity, wrote'.type>>]].value = wrote'.value
         ]_vars

\* all has returned from the first Query operation of the first execution:
\* f was handed the 1 an external holder had written for a shared cell, and
\* wrote the 0 that is now in that cell.
C11_Witness ==
    /\ running /\ call.op = "none" /\ calls = 1 /\ ticks = 1
    /\ presented # << >>
    /\ wrote.type = presented[1].type
    /\ SharedPair(wrote.entity, wrote.type)
    /\ presented[1].map[wrote.entity] = 1
    /\ wrote.value = 0
    /\ cells[given[<<wrote.entity, wrote.type>>]].value = 0

(***************************************************************************)
(* C12.  The Query of the executing system holds exactly the tables of the *)
(* store whose type key is in the system's filter, and for a type U that   *)
(* is not in the filter get_entities::<U> and get_all::<U> return nothing, *)
(* get::<U> returns None, and all::<U> and each::<U> have no cell to lock, *)
(* lock none and hand f nothing.                                           *)
(***************************************************************************)
\* SystemInterface::components of the executing system
Filter == Yield(Systems, idx).components

Range(seq) == {seq[i] : i \in 1..Len(seq)}

C12_QueryHoldsFilteredTablesOnly ==
    running =>
        /\ Range(query) =
             {i \in 1..Len(components) : components[i].type_id \in Filter}
        /\ result.op # "none" /\ result.type \notin Filter =>
             IF result.op = "get" THEN result.value = None
             ELSE result.value = << >>
        /\ call.op # "none" /\ call.type \notin Filter =>
             /\ call.todo = << >> /\ call.held = {}
             /\ \A l \in locks : l[2] # "query"
             /\ call.phase = "f" => presented[1].map = << >>
             /\ invoked = << >>

\* A system whose filter has no B has asked for the B entities of a store
\* that has a B table with an entry.
C12_Witness ==
    /\ running /\ "B" \notin Filter
    /\ result.op = "get_entities" /\ result.type = "B"
    /\ \E i \in 1..Len(components) :
        components[i].type_id = "B" /\ DOMAIN components[i].data # {}

(***************************************************************************)
(* C13.  The filter is a union: what get_entities::<T> returns to a system *)
(* with filter {A, B} is every entity that was given a T component,        *)
(* whether or not it has a component of the other type.                    *)
(***************************************************************************)
C13_FilterIsUnion ==
    running /\ Filter = {"A", "B"} /\ result.op = "get_entities" =>
        Range(result.value) = {e \in Issued : <<e, result.type>> \in added}

\* get_entities::<A> has returned an entity that has no B component, from a
\* store with a B table, to a system with filter {A, B}.
C13_Witness ==
    /\ running /\ Filter = {"A", "B"}
    /\ result.op = "get_entities" /\ result.type = "A"
    /\ \E e \in Range(result.value) : <<e, "B">> \notin added
    /\ get_entities(components, query, "B") # << >>
    /\ Range(get_entities(components, query, "B")) # Range(result.value)

(***************************************************************************)
(* C14.  get_entities, get and get_all neither panic nor change the store, *)
(* the cells or the locks; when the Query has no table of the type they    *)
(* return an empty Vec, None and an empty HashMap, and get returns None    *)
(* when the table of the type has no entry for the entity.                 *)
(***************************************************************************)
\* a step that is a whole get_entities, get or get_all
Returned == calls' = calls + 1 /\ call' = call

C14_AbsenceIsNotAnError ==
    [][Returned =>
        LET T      == result'.type
            tables == {i \in Range(query) : components[i].type_id = T}
        IN /\ ~panicked'
           /\ components' = components /\ cells' = cells /\ locks' = locks
           /\ tables = {} =>
                IF result'.op = "get" THEN result'.value = None
                ELSE result'.value = << >>
           /\ result'.op = "get"
                /\ (\A i \in tables :
                        result'.entity \notin DOMAIN components[i].data)
              => result'.value = None
      ]_vars

\* get has returned None for an entity that has no entry in the table of
\* the type, which the Query holds.
C14_Witness ==
    /\ running /\ ~panicked
    /\ result.op = "get" /\ result.value = None
    /\ \E i \in Range(query) :
        /\ components[i].type_id = result.type
        /\ result.entity \notin DOMAIN components[i].data

(***************************************************************************)
(* C15.  get and get_all take no lock and wait for none: whenever the      *)
(* executing system can call a Query operation it can complete get for     *)
(* every type and entity and get_all for every type, whoever holds the     *)
(* locks; the call returns the cells of the table and leaves the set of    *)
(* held locks as it was.                                                   *)
(***************************************************************************)
C15_GetTakesNoLock ==
    /\ [](Calling =>
            /\ \A T \in Types : ENABLED GetAll(T)
            /\ \A T \in Types, ent \in Issued : ENABLED Get(T, ent))
    /\ [][Returned /\ result'.op \in {"get", "get_all"} =>
            /\ locks' = locks
            /\ result'.op = "get" =>
                 \A i \in Range(query) :
                    components[i].type_id = result'.type
                        /\ result'.entity \in DOMAIN components[i].data
                    => result'.value = components[i].data[result'.entity]
            /\ result'.op = "get_all" =>
                 \A i \in Range(query) :
                    components[i].type_id = result'.type
                    => result'.value = components[i].data
         ]_vars

\* get has returned a cell whose lock an external holder holds: the system
\* is on its first Query operation and has locked nothing.
C15_Witness ==
    /\ running /\ calls = 1 /\ call.op = "none"
    /\ result.op = "get" /\ result.value # None
    /\ Holders(result.value) = {"external"}

(***************************************************************************)
(* C16.  While the f of all::<T> runs, the Query holds the lock of every   *)
(* cell of the T table and nobody else holds one of them: an external      *)
(* holder can neither lock nor write such a cell, and their values change  *)
(* only as f writes them when it returns.  Between two Query operations    *)
(* the Query holds no lock.                                                *)
(***************************************************************************)
\* the cells of the tables of a type in the Query
CellsOf(T) ==
    UNION {{components[i].data[e] : e \in DOMAIN components[i].data} :
            i \in {j \in Range(query) : components[j].type_id = T}}

InF == call.op = "all" /\ call.phase = "f"

C16_AllHoldsEveryLockDuringF ==
    /\ [](InF => \A c \in CellsOf(call.type) :
                    /\ Holders(c) = {"query"}
                    /\ ~ENABLED ExternalLock(c)
                    /\ ~ENABLED ExternalWrite(c))
    /\ [](call.op = "none" => \A l \in locks : l[2] # "query")
    /\ [][InF /\ InF' =>
            \A c \in CellsOf(call.type) : cells'[c] = cells[c]]_vars

\* f runs with the guards of two cells, one of them shared with an external
\* holder
C16_Witness ==
    /\ InF /\ ~panicked
    /\ Cardinality(CellsOf(call.type)) = 2
    /\ \E c \in CellsOf(call.type) : cells[c].external

(***************************************************************************)
(* C17.  each::<T> holds at most one lock at a time, and none while it     *)
(* requests the next one; when it returns it has invoked f exactly once    *)
(* for every entity of the T table and holds no lock.                      *)
(***************************************************************************)
QueryLocks == {l \in locks : l[2] = "query"}

\* the entities of the tables of a type in the Query
EntitiesOf(T) ==
    UNION {DOMAIN components[i].data :
            i \in {j \in Range(query) : components[j].type_id = T}}

C17_EachLocksOneAtATime ==
    /\ [](call.op = "each" =>
            /\ Cardinality(QueryLocks) <= 1
            /\ call.phase = "lock" => QueryLocks = {})
    /\ [][call.op = "each" /\ call'.op = "none" =>
            /\ Range(invoked') = EntitiesOf(call.type)
            /\ \A e \in EntitiesOf(call.type) : Count(invoked', e) = 1
            /\ QueryLocks' = {}
         ]_vars

\* each is about to return from a table of two entities with two cells
C17_Witness ==
    /\ call.op = "each" /\ call.phase = "lock" /\ call.todo = << >>
    /\ ~panicked
    /\ Len(invoked) = 2
    /\ Cardinality(CellsOf(call.type)) = 2

(***************************************************************************)
(* C18.  A Mutex has at most one holder.  While it is held nobody else can *)
(* lock it: the external holder cannot, and an each or all that needs it   *)
(* cannot go on.  A held Mutex stops nobody from locking a different one.  *)
(***************************************************************************)
\* the executing system is at a lock() of each or all
Requesting ==
    /\ call.op \in {"each", "all"} /\ call.phase = "lock"
    /\ call.todo # << >> /\ ~panicked

Requested == Head(call.todo)[2]

C18_OneHolderPerCell ==
    /\ \A c \in 1..Len(cells) :
        /\ Cardinality(Holders(c)) <= 1
        /\ Holders(c) # {} => ~ENABLED ExternalLock(c)
        /\ Holders(c) = {} /\ c \in Shared /\ ~panicked
             /\ (\A l \in locks : l[2] # "external")
           => ENABLED ExternalLock(c)
    /\ Requesting =>
        /\ Holders(Requested) = {"external"} =>
                ~ENABLED all_lock /\ ~ENABLED each_lock
        /\ Holders(Requested) = {} =>
                IF call.op = "all" THEN ENABLED all_lock
                ELSE ENABLED each_lock

\* all holds the lock of one cell and waits for the lock of another, which an
\* external holder holds
C18_Witness ==
    /\ Requesting /\ call.op = "all"
    /\ call.held # {}
    /\ Holders(Requested) = {"external"}
    /\ \E t \in call.held : Holders(t[2]) = {"query"}

(***************************************************************************)
(* C19.  Two calls of all::<T> with no write between the first f and the   *)
(* second hand f the same map, and the steps of an all whose f writes      *)
(* nothing leave the tables and the cells as they were.                    *)
(***************************************************************************)
C19_AllIsIdempotent ==
    /\ [](Len(presented) = 2 =>
            (presented[1].type = presented[2].type /\ ~presented[2].stale
                => presented[1].map = presented[2].map))
    /\ [][call' # call /\ (call.op = "all" \/ call'.op = "all")
            /\ wrote' = wrote /\ ~panicked'
           => components' = components /\ cells' = cells]_vars

\* f runs for the second time in a row on the same type, no cell was
\* written since the first time, and the map has two entities, one with a
\* value that was written before
C19_Witness ==
    /\ InF /\ Len(presented) = 2
    /\ presented[1].type = presented[2].type /\ ~presented[2].stale
    /\ Cardinality(DOMAIN presented[1].map) = 2
    /\ \E e \in DOMAIN presented[1].map : presented[1].map[e] = 1

(***************************************************************************)
(* C20.  The store never holds two tables with the same type key.          *)
(***************************************************************************)
C20_OneTablePerType ==
    \A i, j \in 1..Len(components) :
        components[i].type_id = components[j].type_id => i = j

\* a store with a table for each type, after a call that found the table
\* of its type and added a second entity to it
C20_Witness ==
    /\ Len(components) = Cardinality(Types)
    /\ lastOp.op # "none"
    /\ lastOp.earlier = None
    /\ Cardinality(DOMAIN components[1].data) = 2
    /\ components[1].type_id = lastOp.type

(***************************************************************************)
(* C21.  Every cell in a table holds a value of the type the table is      *)
(* keyed with, so the cell each::<T> is about to downcast and the cells    *)
(* all::<T> holds the guards of are of type T: no downcast fails.          *)
(***************************************************************************)
C21_CellsHaveTheTypeOfTheirTable ==
    /\ \A i \in 1..Len(components) :
        \A e \in DOMAIN components[i].data :
            cells[components[i].data[e]].type = components[i].type_id
    /\ call.op = "each" /\ call.phase = "f" =>
            cells[Head(call.todo)[2]].type = call.type
    /\ call.op = "all" => \A t \in call.held : cells[t[2]].type = call.type

\* all has downcast the guards of a table and runs f, in a store that holds
\* a table of each type
C21_Witness ==
    /\ InF /\ ~panicked
    /\ call.held # {}
    /\ Len(components) = Cardinality(Types)
    /\ DOMAIN presented[1].map = {t[1] : t \in call.held}

(***************************************************************************)
(* C22.  A poisoned cell lock is fatal: when each or all reaches a cell    *)
(* whose Mutex was poisoned by a holder that panicked while holding it,    *)
(* the operation panics; it skips nothing and invokes f no more, and once  *)
(* the thread has panicked no later system runs.                           *)
(***************************************************************************)
\* each or all is about to lock a poisoned cell
AtPoisoned ==
    /\ call.op \in {"each", "all"} /\ call.phase = "lock" /\ ~panicked
    /\ call.todo # << >>
    /\ Head(call.todo)[2] \in poisoned

C22_PoisonedLockIsFatal ==
    [][/\ AtPoisoned /\ call' # call =>
            /\ panicked'
            /\ call'.todo = call.todo
            /\ invoked' = invoked /\ presented' = presented
       /\ panicked => log' = log /\ pc' = pc /\ idx' = idx /\ call' = call]_vars

\* the first of two systems has panicked on a poisoned cell
C22_Witness ==
    /\ panicked /\ call.phase = "poison"
    /\ Head(call.todo)[2] \in poisoned
    /\ pc = "dependent" /\ idx < Len(dependent_systems)
    /\ Len(log) = 1

(***************************************************************************)
(* C23.  The first tick measures its delta from the moment the World was   *)
(* built, and runs the fixed systems floor(time since build / period)      *)
(* times.                                                                  *)
(***************************************************************************)
C23_FirstTickCatchesUp ==
    (ticks = 1 /\ AtReturn) =>
        /\ tick_delta = clock
        /\ passes = clock \div PeriodNs

(***************************************************************************)
(* C24.  What a fixed system writes through its Query persists across      *)
(* passes and ticks: a fixed system that adds Increment to a component on  *)
(* each pass leaves it at x0 + k * Increment after ticks whose deltas sum  *)
(* to exactly k periods, however the time is split into ticks.             *)
(***************************************************************************)
C24_FixedSystemAddsOncePerPeriod ==
    (pc = "idle" /\ fixed_systems # << >> /\ total_delta % PeriodNs = 0) =>
        \A i \in 1..Len(components) :
            \A e \in DOMAIN components[i].data :
                \E x0 \in Values :
                    cells[components[i].data[e]].value =
                        x0 + (total_delta \div PeriodNs) * Increment

(***************************************************************************)
(* C25.  After every tick has returned, 0 <= accumulator < period,         *)
(* whatever the deltas of the ticks so far.                                *)
(***************************************************************************)
C25_AccumulatorBelowPeriod ==
    (pc = "idle" /\ ticks > 0) =>
        /\ F32Ge(accumulator, F32Zero)
        /\ ~F32Ge(accumulator, period)

\* the last of the ticks has returned with a remainder, after fixed passes
C25_Witness ==
    /\ pc = "idle" /\ ticks = MaxTicks
    /\ total_passes > 0
    /\ accumulator # F32Zero

(***************************************************************************)
(* C26.  tick terminates for every finite delta: the fixed-phase loop      *)
(* performs finitely many passes, the dependent phase runs and the tick    *)
(* returns.                                                                *)
(***************************************************************************)
C26_TickTerminates == (pc # "idle") ~> (pc = "idle")

(***************************************************************************)
(* C27.  With no cell lock held outside the World, all::<T> acquires its   *)
(* locks, invokes f and returns: it never waits for a lock that it holds   *)
(* itself.                                                                 *)
(***************************************************************************)
C27_AllNeverWaitsForItself ==
    (call.op = "all" /\ \A c \in Shared : "external" \notin Holders(c)) =>
        /\ call.phase \notin {"deadlock", "panic"}
        /\ call.todo # << >> => "query" \notin Holders(Head(call.todo)[2])

(***************************************************************************)
(* C28.  Contention resolves without an error: when each or all waits for  *)
(* a cell whose lock an external holder holds, and the holder releases it, *)
(* the operation acquires the lock and goes on where it would have gone    *)
(* on without the contention, with no panic.                               *)
(***************************************************************************)
\* each or all waits for cell c, which the external holder has locked
Blocked(c) ==
    /\ Requesting /\ Requested = c
    /\ "external" \in Holders(c)

\* the operation has acquired c and goes on with the entry it waited for
Acquired(c) ==
    /\ <<c, "query">> \in locks /\ ~panicked
    /\ \E t \in call.held : t[2] = c

C29_AllInvokesFOnce ==
    [][/\ call.op = "all" /\ call'.op = "none" =>
            call.fs = 1 /\ ~panicked'
       /\ call'.op = "all" /\ call'.fs # call.fs =>
            call.fs = 0 /\ call'.fs = 1 /\ call'.phase = "f"
       /\ /\ call'.op = "all" /\ call'.phase = "f"
          /\ Targets(components, query, call'.type) = << >>
          => /\ presented'[1].map = << >>
             /\ {l \in locks' : l[2] = "query"} = {}]_vars

\* f runs with an empty map, in a store that has tables
C29_Witness ==
    /\ InF /\ call.fs = 1
    /\ call.held = {} /\ presented[1].map = << >>
    /\ components # << >>
    /\ "query" \notin {l[2] : l \in locks}

(***************************************************************************)
(* C30.  add_component / share_component of type T for entity e appends a  *)
(* new table at the end of the store if and only if there is no table with *)
(* key T, and otherwise changes only the entry of e in the table of T: no  *)
(* table is removed or moved, every other entry of every table, the entity *)
(* list, the systems and the scheduler state stay as they are.             *)
(***************************************************************************)
\* a step of add_component or share_component
StoreStep == components' # components \/ lastOp' # lastOp

C30_StoreFrame ==
    [][StoreStep =>
        LET e == lastOp'.entity
            T == lastOp'.type
        IN /\ Len(components') = Len(components) + 1
                <=> \A i \in 1..Len(components) : components[i].type_id # T
           /\ Len(components') \in {Len(components), Len(components) + 1}
           /\ Len(components') > Len(components) =>
                components'[Len(components')] =
                    [type_id |-> T, data |-> [x \in {e} |-> lastOp'.cell]]
           /\ \A i \in 1..Len(components) :
                /\ components'[i].type_id = components[i].type_id
                /\ \A x \in DOMAIN components[i].data
                              \cup DOMAIN components'[i].data :
                        x # e \/ components[i].type_id # T =>
                            /\ x \in DOMAIN components[i].data
                            /\ x \in DOMAIN components'[i].data
                            /\ components'[i].data[x] = components[i].data[x]
           /\ UNCHANGED <<entities, entities_base, current_id, systemVars,
                          schedVars>>]_vars

\* share_component has replaced an entry of the first table, which has
\* another table after it
C30_Witness ==
    /\ lastOp.op = "share_component" /\ lastOp.earlier # None
    /\ Len(components) = Cardinality(Types)
    /\ components[1].type_id = lastOp.type
    /\ components[1].data[lastOp.entity] = lastOp.cell

(***************************************************************************)
(* C31.  remove_entity(e) on one table erases only the entry of e in that  *)
(* table: the entries of e in the other tables and all entries of other    *)
(* entities stay as they are (e can be left with a part of its             *)
(* components), and removing an entity that has no entry changes nothing.  *)
(***************************************************************************)
\* a step of Component::remove_entity
RemoveStep ==
    /\ lastOp'.op = "remove_entity"
    /\ lastOp' # lastOp \/ components' # components

C31_RemoveFrame ==
    [][RemoveStep =>
        LET e == lastOp'.entity
            T == lastOp'.type
        IN /\ Len(components') = Len(components)
           /\ \A i \in 1..Len(components) :
                /\ components'[i].type_id = components[i].type_id
                /\ DOMAIN components'[i].data =
                        IF components[i].type_id = T
                        THEN DOMAIN components[i].data \ {e}
                        ELSE DOMAIN components[i].data
                /\ \A x \in DOMAIN components'[i].data :
                        components'[i].data[x] = components[i].data[x]
           /\ lastOp'.earlier = None => components' = components
           /\ UNCHANGED <<cells, entities, entities_base, current_id,
                          systemVars, schedVars>>]_vars

\* an entry of an entity was removed from one table, and the entity still
\* has its entry in another table
C31_Witness ==
    /\ lastOp.op = "remove_entity" /\ lastOp.earlier # None
    /\ \E i, j \in 1..Len(components) :
        /\ components[i].type_id = lastOp.type
        /\ lastOp.entity \notin DOMAIN components[i].data
        /\ lastOp.entity \in DOMAIN components[j].data

(***************************************************************************)
(* C32.  A value added with add_component is in a cell of its own, which   *)
(* no other table entry references and no external holder can lock: when a *)
(* system writes that component of an entity through its Query, no         *)
(* component of another entity and no component of another type changes.   *)
(***************************************************************************)
\* f of the executing system writes through a &mut T
WriteStep == wrote' # wrote /\ wrote'.type # "none"

\* the cell it writes to
Written == CellOf(components, wrote'.entity, wrote'.type)

C32_AddedCellIsItsOwn ==
    [][/\ \A c \in 1..Len(cells) :
            ~cells[c].external =>
                /\ Cardinality(EntriesOf(c)) <= 1
                /\ "external" \notin Holders(c)
       /\ WriteStep /\ ~cells[Written].external =>
            \A i \in 1..Len(components) :
                \A x \in DOMAIN components[i].data :
                    x # wrote'.entity \/ components[i].type_id # wrote'.type
                        => cells'[components[i].data[x]].value =
                                cells[components[i].data[x]].value]_vars

\* a system has written the component add_component gave an entity, and
\* another entry of the store holds another value
C32_Witness ==
    /\ wrote.type # "none"
    /\ LET c == CellOf(components, wrote.entity, wrote.type)
       IN /\ c # None /\ ~cells[c].external
          /\ cells[c].value = wrote.value
          /\ \E d \in WorldCells :
                d # c /\ ~cells[d].external /\ cells[d].value # wrote.value

(***************************************************************************)
(* App (os.rs): the winit handlers around a World                          *)
(***************************************************************************)
\* the filters of the two systems App::resumed registers
RenderFilter == {"Model", "Instance"}
InputFilter == {"InputManager"}

\* the keys, the axes and the values the events of the model carry; axis 2
\* stands for every axis other than 0 and 1.  The values are small integers,
\* which `value as f32` converts exactly.
PhysicalKeys == {"KeyW"}
Axes == {0, 1, 2}
MotionValues == {1, 2}

\* ApplicationHandler::resumed: a new window and a new renderer, then
\* add_dependent_system and add_fixed_system with the App's two closures
resumed ==
    /\ pc = "idle" /\ ~panicked
    /\ dependent_systems' =
          push(dependent_systems,
               [name |-> registered + 1, components |-> RenderFilter,
                executable |-> "attach"])
    /\ fixed_systems' =
          push(fixed_systems,
               [name |-> registered + 2, components |-> InputFilter,
                executable |-> "reset_input"])
    /\ registered' = registered + 2
    /\ vertex_buffers' = << >>
    /\ instances' = << >>
    /\ UNCHANGED <<schedVars, storeVars, entityVars, buildVars, input,
                   received, fatal, queryVars>>

\* WindowEvent::KeyboardInput, neither synthetic nor a repeat
KeyboardInput(key, state) ==
    /\ pc = "idle" /\ ~panicked
    /\ input' = [input EXCEPT !.keys = IF state = "Pressed"
                                       THEN @ \cup {key}
                                       ELSE @ \ {key}]
    /\ UNCHANGED <<schedVars, storeVars, entityVars, systemVars, buildVars,
                   received, vertex_buffers, instances, fatal, queryVars>>

window_event ==
    \E key \in PhysicalKeys, state \in {"Pressed", "Released"} :
        KeyboardInput(key, state)

\* DeviceEvent::Motion { axis, value }
Motion(axis, value) ==
    /\ pc = "idle" /\ ~panicked
    /\ IF axis \in {0, 1}
       THEN /\ received[1] + received[2] + value <= MaxMotion
            /\ input' = [input EXCEPT !.analog_input[axis + 1] = value]
            /\ received' = [received EXCEPT ![axis + 1] = @ + value]
            /\ UNCHANGED <<panicked, fatal>>
       ELSE \* panic!("unknown axis")
            /\ panicked' = TRUE
            /\ fatal' = "unknown axis"
            /\ UNCHANGED <<input, received>>
    /\ UNCHANGED <<schedVars, storeVars, entities, entities_base, current_id,
                   returned, systemVars, buildVars, vertex_buffers, instances,
                   queryVars>>

device_event == \E axis \in Axes, value \in MotionValues : Motion(axis, value)

\* The user's side of the InputManager: world.add_component(entity,
\* InputManager::new()), and a dependent system whose filter is InputManager
add_input_manager ==
    /\ pc = "idle" /\ ~panicked
    /\ Len(cells) < MaxAppCells
    /\ \E entity \in Issued :
        /\ cells' = Append(cells, [type |-> "InputManager",
                                   value |-> InputManager_new,
                                   external |-> FALSE])
        /\ Store("add_component", entity, "InputManager", Len(cells) + 1)
    /\ UNCHANGED <<schedVars, entityVars, systemVars, buildVars, appVars,
                   queryVars>>

\* the names of the systems of `list` that run the closure `executable`
BuiltIn(list, executable) ==
    {list[i].name : i \in {j \in 1..Len(list) :
                                list[j].executable = executable}}

\* resumed has created the window that window_event is called for
Resumed == BuiltIn(fixed_systems, "reset_input") # {}

\* An App that is resumed at most MaxResumes times, around a World with at
\* most one entity and one system of the user, ticked at most MaxAppTicks
\* times, by at most a second each time.  The window's events (a key, the
\* redraw that ticks the World) come once the App is resumed.
AppDriver ==
    /\ registered' <= 2 * MaxResumes + 1
    /\ Len(entities') <= MaxAppCells
    /\ ticks' <= MaxAppTicks
    /\ clock' - clock <= NanosPerSec
    /\ (ticks' > ticks \/ input'.keys # input.keys) => Resumed

NextApp ==
    \/ resumed /\ AppDriver
    \/ window_event /\ AppDriver
    \/ device_event
    \/ new_entity /\ AppDriver
    \/ add_input_manager
    \/ RegisterDependent({InputFilter}) /\ AppDriver
    \/ TickStart /\ AppDriver
    \/ SystemBegin
    \/ SystemEnd
    \/ PassEnd
    \/ TickEnd

SpecApp == Init /\ [][NextApp]_vars

(***************************************************************************)
(* WgpuRenderer (graphics.rs), InstanceInfo (mesh.rs)                      *)
(***************************************************************************)
\* the meshes and the instances the caller attaches
MeshIds == {1, 2}
InstanceIds == {1, 2}
\* a Renderable: the id of its mesh, and whether tex_builder() is Some
Renderables == [mesh : MeshIds, tex_builder : BOOLEAN]

\* InstanceInfo::new(device, vec![])
InstanceInfo_new == [instances |-> << >>, instance_count |-> 0]

InstanceInfo_contains(info, id) ==
    \E i \in 1..Len(info.instances) : info.instances[i] = id

\* retain, then instance_count -= 1
InstanceInfo_remove(info, id) ==
    [instances |-> SelectSeq(info.instances, LAMBDA x : x # id),
     instance_count |-> info.instance_count - 1]

\* push, then instance_count += 1
InstanceInfo_append(info, instance) ==
    [instances |-> Append(info.instances, instance),
     instance_count |-> info.instance_count + 1]

\* Renderer::attach
Attach(item, instance) ==
    /\ pc = "idle" /\ ~panicked
    /\ vertex_buffers' =
          IF item.mesh \notin DOMAIN vertex_buffers
          THEN [m \in DOMAIN vertex_buffers \cup {item.mesh} |->
                   IF m = item.mesh
                   THEN [texture_bind_group |-> item.tex_builder]
                   ELSE vertex_buffers[m]]
          ELSE vertex_buffers
    /\ LET found   == IF item.mesh \in DOMAIN instances
                      THEN instances[item.mesh]
                      ELSE InstanceInfo_new
           cleared == IF InstanceInfo_contains(found, instance)
                      THEN InstanceInfo_remove(found, instance)
                      ELSE found
       IN instances' =
             [m \in DOMAIN instances \cup {item.mesh} |->
                 IF m = item.mesh
                 THEN InstanceInfo_append(cleared, instance)
                 ELSE instances[m]]
    /\ UNCHANGED <<schedVars, storeVars, entityVars, systemVars, buildVars,
                   input, received, fatal, queryVars>>

attach == \E item \in Renderables, instance \in InstanceIds :
              Attach(item, instance)

\* Renderer::render: the loop over instances.keys() stops at the first mesh
\* (in the order of the HashMap) without a vertex buffer or without a
\* texture; a loop that comes to its end is followed by
\* vertex_buffers.clear()
render ==
    /\ pc = "idle" /\ ~panicked
    /\ LET missing == DOMAIN instances \ DOMAIN vertex_buffers
           bare    == {m \in DOMAIN instances \cap DOMAIN vertex_buffers :
                          ~vertex_buffers[m].texture_bind_group}
       IN IF missing \cup bare = {}
          THEN /\ vertex_buffers' = << >>
               /\ UNCHANGED <<panicked, fatal>>
          ELSE /\ panicked' = TRUE
               /\ \E m \in missing \cup bare :
                     fatal' = IF m \in missing THEN "Mesh not found"
                              ELSE "No texture"
               /\ UNCHANGED vertex_buffers
    /\ UNCHANGED <<schedVars, storeVars, entities, entities_base, current_id,
                   returned, systemVars, buildVars, input, received,
                   instances, queryVars>>

NextRender ==
    \/ attach
    \/ render

SpecRender == Init /\ [][NextRender]_vars

(***************************************************************************)
(* The App's input                                                         *)
(***************************************************************************)
\* C33: when a tick of the App returns, each input-reset system the App has
\* registered has run, and so has reset the analog input, exactly once in
\* that tick, whatever the number of fixed passes of the tick.
C33_AnalogInputResetOncePerTick ==
    AtReturn =>
        \A n \in BuiltIn(fixed_systems, "reset_input") :
            Cardinality(Ends(n)) = 1

\* C34: the analog input is, on each axis, the sum of the values of the
\* motion events received on that axis since the last reset.
C34_AnalogInputAccumulates == input.analog_input = received

\* the cells of the tables the Query of the executing system holds
Queried ==
    UNION {{components[query[i]].data[e] :
                e \in DOMAIN components[query[i]].data} :
           i \in 1..Len(query)}

\* C35: while a system of the user whose filter contains InputManager
\* executes, the keys of every InputManager component its Query reaches are
\* the keys the App's events have pressed and not released.
C35_WorldInputFollowsEvents ==
    (/\ running
     /\ Yield(Systems, idx).executable = "user"
     /\ "InputManager" \in Yield(Systems, idx).components)
        => \A c \in Queried : cells[c].value.keys = input.keys

\* C38: the World holds at most one dependent system with the App's attach
\* closure and at most one fixed system with the App's input-reset closure,
\* and as many of the one as of the other.
C38_BuiltInsRegisteredOnce ==
    /\ Cardinality(BuiltIn(dependent_systems, "attach")) <= 1
    /\ Cardinality(BuiltIn(fixed_systems, "reset_input")) <= 1
    /\ Cardinality(BuiltIn(dependent_systems, "attach"))
         = Cardinality(BuiltIn(fixed_systems, "reset_input"))

(***************************************************************************)
(* The renderer                                                            *)
(***************************************************************************)
\* C36: render never fails for want of a texture: a Renderable whose
\* tex_builder() is None is attached and rendered without the "No texture"
\* panic.
C36_UntexturedRenders == fatal # "No texture"

\* C37: render never fails for want of a vertex buffer: after any attach and
\* render calls, no render ends in the "Mesh not found" panic.
C37_RenderFindsEveryMesh == fatal # "Mesh not found"

====
